---- MODULE Spec2Model ----
(***************************************************************************)
(* A model of fatimg (src/src/main.rs): a command line tool that inspects  *)
(* and changes a FAT filesystem image.  One invocation of the tool is one  *)
(* step of the model.  Strings are sequences of one-character strings, an  *)
(* image directory is the sequence of its stored entries in enumeration    *)
(* order, and a host directory is the sequence fs::read_dir yields.        *)
(***************************************************************************)
EXTENDS Integers, Sequences, FiniteSets, TLC

VARIABLES
    img,     \* the image file: [state, root]
    host,    \* the host directory named by host_path: [exists, entries]
    args,    \* the arguments of the last invocation (struct Args / enum Command)
    obs,     \* what the last invocation did: status, stdout, stderr, ...
    imgPre   \* the image file as it was before the last invocation

vars == <<img, host, args, obs, imgPre>>

----------------------------------------------------------------------------
(* Bounds of the model *)

\* longest inner_path handed to normalize_inner_path alone
MaxNormLen == 6
\* longest inner_path handed to a command
MaxPathLen == 2
\* longest file content, in bytes
MaxFileLen == 2
\* the size of buf in the copy loop of write_tree_to_img, scaled down from 1024
ChunkSize == 2
\* most entries of a host directory tree
MaxHostNodes == 2
\* most entries of an image drawn for ls
MaxLsNodes == 3
\* most entries of the image in a session of several commands
MaxImgNodes == 1
\* most entries of the image write-tree is given
MaxDestNodes == 1
\* highest count of -l flags
MaxLong == 3

----------------------------------------------------------------------------
(* Strings *)

Min(a, b) == IF a <= b THEN a ELSE b

Strings(S, n) == UNION {[1..k -> S] : k \in 0..n}

\* the characters of the paths given to normalize_inner_path alone
NormChars == {"/", "a", "b", "."}
\* the characters of the paths given to the commands
PathChars == {"/", "a"}

NormPaths == Strings(NormChars, MaxNormLen)
InnerPaths == Strings(PathChars, MaxPathLen)

\* str::strip_prefix("/"): Some(rest) or None
strip_prefix_lenient(p) ==
    IF Len(p) >= 1 /\ p[1] = "/"
    THEN [some |-> TRUE, rest |-> Tail(p)]
    ELSE [some |-> TRUE, rest |-> p]

strip_prefix(p) ==
    IF Len(p) >= 1 /\ p[1] = "/"
    THEN [some |-> TRUE, rest |-> Tail(p)]
    ELSE [some |-> FALSE, rest |-> <<>>]

\* str::split("/"): the pieces between the separators, empty ones included;
\* k separators give k+1 pieces
RECURSIVE split(_)
split(s) ==
    IF \A i \in 1..Len(s) : s[i] # "/"
    THEN <<s>>
    ELSE LET i == CHOOSE k \in 1..Len(s) :
                     s[k] = "/" /\ \A j \in 1..(k - 1) : s[j] # "/"
         IN  <<SubSeq(s, 1, i - 1)>> \o split(SubSeq(s, i + 1, Len(s)))

\* [&str]::join("/")
RECURSIVE join(_)
join(v) ==
    IF v = <<>> THEN <<>>
    ELSE IF Len(v) = 1 THEN v[1]
    ELSE v[1] \o <<"/">> \o join(Tail(v))

\* the loop of normalize_inner_path: push the pieces that are not empty
push_all(pieces) == pieces

push_nonempty(pieces) == SelectSeq(pieces, LAMBDA s : s # <<>>)

\* normalize_inner_path panics ("Absolute path required")
normalize_panics(p) == ~strip_prefix(p).some

\* normalize_inner_path's result when it does not panic
normalize_inner_path(p) == join(push_nonempty(split(strip_prefix(p).rest)))

----------------------------------------------------------------------------
(* Directory trees *)

\* file contents: byte i of a file is i, so a missing, repeated or added
\* byte shows
FileDatas == {[i \in 1..k |-> i] : k \in 0..MaxFileLen}

\* the entry names of the drawn trees, distinct as the backend compares names
EntryNames == {<<"a">>, <<"b">>}

\* an image entry (fatfs::DirEntry): a file or a directory
ImgFile(name, data) ==
    [name |-> name, kind |-> "File", target |-> "", data |-> data, children |-> <<>>]
ImgDir(name, children) ==
    [name |-> name, kind |-> "Dir", target |-> "", data |-> <<>>, children |-> children]

\* a host entry (std::fs::DirEntry): a file, a directory, a symlink (to a
\* file or to a directory) or something else (device, socket, FIFO)
HostLeaves(name) ==
    {[name |-> name, kind |-> "File", target |-> "", data |-> d, children |-> <<>>] :
        d \in FileDatas}
    \cup {[name |-> name, kind |-> "Symlink", target |-> t, data |-> <<>>, children |-> <<>>] :
        t \in {"File", "Dir"}}
    \cup {[name |-> name, kind |-> "Other", target |-> "", data |-> <<>>, children |-> <<>>]}

ImgLeaves(name) == {ImgFile(name, d) : d \in FileDatas}

Leaves(isHost, name) == IF isHost THEN HostLeaves(name) ELSE ImgLeaves(name)

\* the directories of exactly n entries in all (at any depth), as sequences of
\* entries with distinct names in every enumeration order
RECURSIVE ForestOf(_, _)
RECURSIVE EntryOf(_, _)
ForestOf(isHost, n) ==
    IF n = 0 THEN {<<>>}
    ELSE UNION {
           UNION { { <<e>> \o r :
                       r \in {q \in ForestOf(isHost, n - k) :
                                 \A i \in 1..Len(q) : q[i].name # e.name} } :
                   e \in EntryOf(isHost, k) } :
           k \in 1..n }
EntryOf(isHost, k) ==
    IF k = 1
    THEN UNION {Leaves(isHost, nm) \cup {ImgDir(nm, <<>>)} : nm \in EntryNames}
    ELSE {ImgDir(nm, c) : nm \in EntryNames, c \in ForestOf(isHost, k - 1)}

Forests(isHost, n) == UNION {ForestOf(isHost, k) : k \in 0..n}

RECURSIVE NodeCount(_)
NodeCount(children) ==
    IF children = <<>> THEN 0
    ELSE 1 + NodeCount(Head(children).children) + NodeCount(Tail(children))

----------------------------------------------------------------------------
(* The image filesystem backend (crate fatfs), as main.rs calls it *)

DotEntry == ImgDir(<<".">>, <<>>)
DotDotEntry == ImgDir(<<".", ".">>, <<>>)

\* Dir::iter(): the root directory of a FAT volume stores no "." and "..";
\* every other directory starts with them
iter(children, isRoot) ==
    IF isRoot THEN children ELSE <<DotEntry, DotDotEntry>> \o children

\* DirEntry::to_dir(): the handle of a subdirectory
to_dir(entry) == iter(entry.children, FALSE)

\* the index of the stored entry called name, or 0
Find(children, name) ==
    IF \E i \in 1..Len(children) : children[i].name = name
    THEN CHOOSE i \in 1..Len(children) : children[i].name = name
    ELSE 0

Front(s) == SubSeq(s, 1, Len(s) - 1)
Last(s) == s[Len(s)]

\* the stored entries of the directory reached from children along segs
RECURSIVE DirAt(_, _)
DirAt(children, segs) ==
    IF segs = <<>> THEN [ok |-> TRUE, children |-> children]
    ELSE LET i == Find(children, Head(segs))
         IN  IF i = 0 \/ children[i].kind # "Dir"
             THEN [ok |-> FALSE, children |-> <<>>]
             ELSE DirAt(children[i].children, Tail(segs))

\* children with the stored entries of the directory at segs replaced
RECURSIVE ReplaceAt(_, _, _)
ReplaceAt(children, segs, new) ==
    IF segs = <<>> THEN new
    ELSE LET i == Find(children, Head(segs))
         IN  [children EXCEPT
                 ![i].children = ReplaceAt(children[i].children, Tail(segs), new)]

\* Dir::open_dir(path)
open_dir(root, path) == DirAt(root, split(path))

\* Dir::open_file(path)
open_file(root, path) ==
    LET segs == split(path)
        dir  == DirAt(root, Front(segs))
        i    == IF dir.ok THEN Find(dir.children, Last(segs)) ELSE 0
    IN  IF i # 0 /\ dir.children[i].kind = "File"
        THEN [ok |-> TRUE, data |-> dir.children[i].data]
        ELSE [ok |-> FALSE, data |-> <<>>]

\* Dir::create_dir(name) in one directory: opens an existing directory,
\* refuses a file of that name or an empty name, else appends a new entry
create_dir(children, name) ==
    LET i == Find(children, name)
    IN  IF name = <<>> THEN [ok |-> FALSE, children |-> children]
        ELSE IF i = 0 THEN [ok |-> TRUE, children |-> Append(children, ImgDir(name, <<>>))]
        ELSE [ok |-> children[i].kind = "Dir", children |-> children]

\* Dir::create_file(name) in one directory: opens an existing file as it is,
\* refuses a directory of that name or an empty name, else appends a new entry
create_file(children, name) ==
    LET i == Find(children, name)
    IN  IF name = <<>> THEN [ok |-> FALSE, children |-> children, at |-> 0]
        ELSE IF i = 0
        THEN [ok |-> TRUE, children |-> Append(children, ImgFile(name, <<>>)),
              at |-> Len(children) + 1]
        ELSE [ok |-> children[i].kind = "File", children |-> children, at |-> i]

\* the bytes of a file after bytes are written at offset pos
WriteAt(old, pos, bytes) ==
    SubSeq(old, 1, pos) \o bytes \o SubSeq(old, pos + Len(bytes) + 1, Len(old))

\* one Write::write call may accept fewer bytes than it is offered (fatfs
\* stops at the end of the cluster): acc is the most one call accepts
MaxWrite == IF ChunkSize > MaxFileLen THEN ChunkSize ELSE MaxFileLen
Accepts == 1..MaxWrite

\* File::write(buf) of n bytes: the number of bytes accepted
file_write(n, acc) == Min(n, acc)

----------------------------------------------------------------------------
(* print_ls *)

Token(k, v) == [k |-> k, v |-> v]

\* one line of standard output
OutLine(kind, pad, meta, text) ==
    [kind |-> kind, pad |-> pad, meta |-> meta, text |-> text]

\* println!("{:?}", args) at the start of main
ArgsLine == OutLine("args", 0, <<>>, <<>>)

\* name == "." || name == ".."
is_dot_name(name) == name = <<".">> \/ name = <<".", ".">>

\* the metadata print_ls puts before the name, by the count of -l flags
ls_meta(entry, long) ==
    (IF long >= 3 THEN <<Token("created", 0)>> ELSE <<>>)
    \o (IF long >= 2 THEN <<Token("modified", 0)>> ELSE <<>>)
    \o (IF long >= 3 THEN <<Token("accessed", 0)>> ELSE <<>>)
    \o (IF long >= 1
        THEN <<Token("attributes", 0)>>
             \o (IF entry.kind = "File"
                 THEN <<Token("size", Len(entry.data))>> ELSE <<>>)
        ELSE <<>>)

\* the line of one entry: "  ".repeat(indent), the metadata, the name and a
\* "/" after a directory's
ls_line(entry, long, indent) ==
    OutLine("entry", 2 * indent, ls_meta(entry, long),
            entry.name \o (IF entry.kind = "Dir" THEN <<"/">> ELSE <<>>))

RECURSIVE print_ls(_, _, _, _)

\* print_ls with the test for "." and ".." after the line is printed
print_ls_dots_listed(cursor, long, recursive, indent) ==
    IF cursor = <<>> THEN <<>>
    ELSE LET entry == Head(cursor)
         IN  <<ls_line(entry, long, indent)>>
             \o (IF ~is_dot_name(entry.name) /\ recursive /\ entry.kind = "Dir"
                 THEN print_ls(to_dir(entry), long, recursive, indent + 1)
                 ELSE <<>>)
             \o print_ls(Tail(cursor), long, recursive, indent)

\* print_ls with the subdirectories listed after the directory's own entries
print_ls_dirs_last(cursor, long, recursive, indent) ==
    IF cursor = <<>> THEN <<>>
    ELSE LET entry == Head(cursor)
         IN  IF is_dot_name(entry.name)
             THEN print_ls(Tail(cursor), long, recursive, indent)
             ELSE <<ls_line(entry, long, indent)>>
                  \o print_ls(Tail(cursor), long, recursive, indent)
                  \o (IF recursive /\ entry.kind = "Dir"
                      THEN print_ls(to_dir(entry), long, recursive, indent + 1)
                      ELSE <<>>)

\* the lines print_ls writes for the entries cursor enumerates
print_ls(cursor, long, recursive, indent) ==
    IF cursor = <<>> THEN <<>>
    ELSE LET entry == Head(cursor)
         IN  IF is_dot_name(entry.name)
             THEN print_ls(Tail(cursor), long, recursive, indent)
             ELSE <<ls_line(entry, long, indent)>>
                  \o (IF recursive /\ entry.kind = "Dir"
                      THEN print_ls(to_dir(entry), long, recursive, indent + 1)
                      ELSE <<>>)
                  \o print_ls(Tail(cursor), long, recursive, indent)

----------------------------------------------------------------------------
(* write_tree_to_img *)

\* std::fs::FileType of a DirEntry: file_type() does not follow a symlink, so
\* exactly one of the three holds of a file, a directory or a symlink and
\* none of anything else
is_symlink(t) == t.kind = "Symlink"

is_file_following(t) == t.kind = "File" \/ (t.kind = "Symlink" /\ t.target = "File")

is_file(t) == t.kind = "File"

is_dir(t) == t.kind = "Dir"

SymlinkWarning == "Warning: Not copying a symlink"

\* the diagnostics written for a host entry
entry_warnings_all(t) == IF ~is_file(t) /\ ~is_dir(t) THEN <<SymlinkWarning>> ELSE <<>>

entry_warnings(t) == IF is_symlink(t) THEN <<SymlinkWarning>> ELSE <<>>

\* the copy loop: read up to ChunkSize bytes, hand them to one write call,
\* whose count of accepted bytes is dropped, and stop after an empty read
RECURSIVE copy_loop(_, _, _, _)
copy_loop(source, file, pos, acc) ==
    LET n     == Min(ChunkSize, Len(source))
        k     == file_write(n, acc)
        file1 == WriteAt(file, pos, SubSeq(source, 1, k))
    IN  IF n = 0 THEN file1
        ELSE copy_loop(SubSeq(source, n + 1, Len(source)), file1, pos + k, acc)

\* the first loop of write_tree_to_img: todo!() at the first entry of the
\* destination that is not "." or ".."
destination_accepted_always(cursor) == TRUE

destination_accepted(cursor) ==
    \A i \in 1..Len(cursor) : is_dot_name(cursor[i].name)

TreeResult(status, children, err, reads) ==
    [status |-> status, children |-> children, err |-> err, reads |-> reads]

RECURSIVE write_tree_to_img(_, _, _, _)
RECURSIVE write_entries(_, _, _)

\* let mut target_file = cursor.create_file(&name).expect("Create file"),
\* then the copy loop; created is what create_file gave
fill_file(created, data, acc) ==
    IF created.ok
    THEN [ok |-> TRUE,
          children |-> [created.children EXCEPT
                           ![created.at].data = copy_loop(data, @, 0, acc)]]
    ELSE [ok |-> FALSE, children |-> created.children]

\* if t.is_file() { ... }
file_step(children, entry, acc) ==
    IF is_file(entry)
    THEN fill_file(create_file(children, entry.name), entry.data, acc)
    ELSE [ok |-> TRUE, children |-> children]

\* the destination with the result sub of the recursive call put under the
\* directory entry at index at
graft(children, at, sub) ==
    TreeResult(sub.status, [children EXCEPT ![at].children = sub.children],
               sub.err, sub.reads)

\* write_tree_to_img(subdir, entry.path())?
descend(children, at, entry, acc) ==
    graft(children, at,
          write_tree_to_img(children[at].children, FALSE,
                            [exists |-> TRUE, entries |-> entry.children], acc))

\* enter_dir without the recursive call
enter_dir_shallow(made, entry, acc) ==
    TreeResult(IF made.ok THEN "ok" ELSE "panic", made.children, <<>>, 0)

\* let subdir = cursor.create_dir(&name).expect("Dir entry"); made is what
\* create_dir gave
enter_dir(made, entry, acc) ==
    IF made.ok
    THEN descend(made.children, Find(made.children, entry.name), entry, acc)
    ELSE TreeResult("panic", made.children, <<>>, 0)

\* if t.is_dir() { ... }, after the file step st
dir_step(st, entry, acc) ==
    IF ~st.ok THEN TreeResult("panic", st.children, <<>>, 0)
    ELSE IF is_dir(entry)
    THEN enter_dir(create_dir(st.children, entry.name), entry, acc)
    ELSE TreeResult("ok", st.children, <<>>, 0)

\* r with the diagnostics warn before its own and one more host entry read
after_entry(warn, r) ==
    TreeResult(r.status, r.children, warn \o r.err, 1 + r.reads)

\* one turn of the second loop of write_tree_to_img
entry_step(children, entry, acc) ==
    after_entry(entry_warnings(entry),
                dir_step(file_step(children, entry, acc), entry, acc))

\* b, the rest of the loop, after a
then_result(a, b) ==
    TreeResult(b.status, b.children, a.err \o b.err, a.reads + b.reads)

\* the rest of the loop after the turn that gave r: an error or a panic
\* ends it
continue_entries(r, entries, acc) ==
    IF r.status # "ok" THEN r
    ELSE then_result(r, write_entries(r.children, entries, acc))

\* the second loop of write_tree_to_img over the host entries left to copy;
\* children are the stored entries of the destination so far
write_entries(children, entries, acc) ==
    IF entries = <<>> THEN TreeResult("ok", children, <<>>, 0)
    ELSE continue_entries(entry_step(children, Head(entries), acc),
                          Tail(entries), acc)

\* write_tree_to_img(cursor, host_path): cursor holds children (and is the
\* root directory or not), hostdir is what host_path names
write_tree_to_img(children, isRoot, hostdir, acc) ==
    IF ~destination_accepted(iter(children, isRoot))
    THEN TreeResult("panic", children, <<>>, 0)
    ELSE IF ~hostdir.exists
    THEN TreeResult("err", children, <<>>, 1)
    ELSE after_entry(<<>>, write_entries(children, hostdir.entries, acc))

----------------------------------------------------------------------------
(* main: one invocation of the tool *)

AbsentImage == [state |-> "absent", root |-> <<>>]
RawImage == [state |-> "raw", root |-> <<>>]
FatImage(root) == [state |-> "fat", root |-> root]

IdAccept == MaxWrite

NoInput == [given |-> FALSE, exists |-> FALSE, data |-> <<>>]

Args(cmd, path, long, recursive, force, sizeOk, input) ==
    [cmd |-> cmd, inner_path |-> path, long |-> long, recursive |-> recursive,
     force |-> force, sizeOk |-> sizeOk, input |-> input]

\* what an invocation did: how it ended ("ok": Ok(()), "err": an Err
\* returned from main, "panic"), whether it reached the open of the image
\* file, the normalized path, standard output, standard error, the number
\* of reads of the host directory tree, and the host entries it created
\* (no command creates any: read-tree, the only one that would, is a todo!())
Obs(status, opened, norm, out, err, reads) ==
    [status |-> status, opened |-> opened, norm |-> norm, out |-> out,
     err |-> err, reads |-> reads, extracted |-> <<>>]

Result(image, o) == [img |-> image, obs |-> o]

\* an invocation that ends before it changes anything
Ends(image, status, opened, norm) ==
    Result(image, Obs(status, opened, norm, <<ArgsLine>>, <<>>, 0))

\* Command::Create
main_create(image, a) ==
    IF ~a.force /\ image.state # "absent"
    THEN Ends(image, "err", TRUE, <<>>)
    ELSE IF ~a.sizeOk
    THEN Ends(RawImage, "err", TRUE, <<>>)
    ELSE Ends(FatImage(<<>>), "ok", TRUE, <<>>)

InfoLabels ==
    <<"fs type", "volume id", "volume label", "cluster size", "cluster count",
      "clusters free", "usage">>

\* Command::Info
main_info(image) ==
    IF image.state # "fat"
    THEN Ends(image, "err", TRUE, <<>>)
    ELSE Result(image,
           Obs("ok", TRUE, <<>>,
               <<ArgsLine>>
               \o [i \in 1..Len(InfoLabels) |->
                      OutLine("info", 0, <<Token(InfoLabels[i], 0)>>, <<>>)],
               <<>>, 0))

\* let mut cursor = fs.root_dir(); if !inner_path.is_empty() { cursor =
\* cursor.open_dir(&inner_path)?; }
cursor_at(root, path) ==
    IF path = <<>> THEN [ok |-> TRUE, children |-> root] ELSE open_dir(root, path)

\* Command::Ls
main_ls(image, a) ==
    IF normalize_panics(a.inner_path) THEN Ends(image, "panic", FALSE, <<>>)
    ELSE
    LET path   == normalize_inner_path(a.inner_path)
        cursor == cursor_at(image.root, path)
    IN  IF image.state # "fat" \/ ~cursor.ok
        THEN Ends(image, "err", TRUE, path)
        ELSE Result(image,
               Obs("ok", TRUE, path,
                   <<ArgsLine>>
                   \o print_ls(iter(cursor.children, path = <<>>),
                               a.long, a.recursive, 0),
                   <<>>, 0))

\* Command::Mkdir
main_mkdir(image, a) ==
    IF normalize_panics(a.inner_path) THEN Ends(image, "panic", FALSE, <<>>)
    ELSE
    LET path   == normalize_inner_path(a.inner_path)
        segs   == split(path)
        parent == DirAt(image.root, Front(segs))
        made   == create_dir(parent.children, Last(segs))
    IN  IF image.state # "fat" \/ ~parent.ok \/ ~made.ok
        THEN Ends(image, "err", TRUE, path)
        ELSE Ends(FatImage(ReplaceAt(image.root, Front(segs), made.children)),
                  "ok", TRUE, path)

\* Command::Read
main_read(image, a) ==
    IF normalize_panics(a.inner_path) THEN Ends(image, "panic", FALSE, <<>>)
    ELSE
    LET path   == normalize_inner_path(a.inner_path)
        source == open_file(image.root, path)
    IN  IF image.state # "fat" \/ ~source.ok
        THEN Ends(image, "err", TRUE, path)
        ELSE Result(image,
               Obs("ok", TRUE, path,
                   <<ArgsLine, OutLine("data", 0, <<>>, source.data)>>,
                   <<>>, 0))

\* Write::write_all(buf): write until every byte is accepted
RECURSIVE write_all(_, _, _, _)
write_all(buf, file, pos, acc) ==
    IF buf = <<>> THEN file
    ELSE LET k == file_write(Len(buf), acc)
         IN  write_all(SubSeq(buf, k + 1, Len(buf)),
                       WriteAt(file, pos, SubSeq(buf, 1, k)), pos + k, acc)

\* io::copy(&mut source, &mut target_file): its buffer is larger than any
\* file of the model, so the source arrives in one read
io_copy(source, file, acc) == write_all(source, file, 0, acc)

\* Command::Write
main_write(image, a, acc) ==
    IF normalize_panics(a.inner_path) THEN Ends(image, "panic", FALSE, <<>>)
    ELSE
    LET path    == normalize_inner_path(a.inner_path)
        segs    == split(path)
        parent  == DirAt(image.root, Front(segs))
        created == create_file(parent.children, Last(segs))
        filled  == [created.children EXCEPT
                       ![created.at].data = io_copy(a.input.data, <<>>, acc)]
    IN  IF image.state = "absent"
           \/ (a.input.given /\ ~a.input.exists)
           \/ image.state # "fat" \/ ~parent.ok \/ ~created.ok
        THEN Ends(image, "err", TRUE, path)
        ELSE Result(FatImage(ReplaceAt(image.root, Front(segs), filled)),
                    Obs("ok", TRUE, path, <<ArgsLine>>, <<>>, 0))

\* Command::ReadTree: todo!("ReadTree") once the image file is open
main_read_tree(image, a) ==
    IF normalize_panics(a.inner_path) THEN Ends(image, "panic", FALSE, <<>>)
    ELSE LET path == normalize_inner_path(a.inner_path)
         IN  IF image.state = "absent"
             THEN Ends(image, "err", TRUE, path)
             ELSE Ends(image, "panic", TRUE, path)

\* the image and the observation after write_tree_to_img gave r for the
\* directory at segs
tree_written(image, path, segs, r) ==
    Result(FatImage(ReplaceAt(image.root, segs, r.children)),
           Obs(r.status, TRUE, path, <<ArgsLine>>, r.err, r.reads))

\* Command::WriteTree
main_write_tree(image, hostdir, a, acc) ==
    IF normalize_panics(a.inner_path) THEN Ends(image, "panic", FALSE, <<>>)
    ELSE
    LET path   == normalize_inner_path(a.inner_path)
        cursor == cursor_at(image.root, path)
        segs   == IF path = <<>> THEN <<>> ELSE split(path)
    IN  IF image.state # "fat" \/ ~cursor.ok
        THEN Ends(image, "err", TRUE, path)
        ELSE tree_written(image, path, segs,
               write_tree_to_img(cursor.children, path = <<>>, hostdir, acc))

\* match args.cmd
main(image, hostdir, a, acc) ==
    CASE a.cmd = "create"     -> main_create(image, a)
      [] a.cmd = "info"       -> main_info(image)
      [] a.cmd = "ls"         -> main_ls(image, a)
      [] a.cmd = "mkdir"      -> main_mkdir(image, a)
      [] a.cmd = "read"       -> main_read(image, a)
      [] a.cmd = "write"      -> main_write(image, a, acc)
      [] a.cmd = "read-tree"  -> main_read_tree(image, a)
      [] a.cmd = "write-tree" -> main_write_tree(image, hostdir, a, acc)

----------------------------------------------------------------------------
(* Actions: one per subcommand *)

Run(a, acc) ==
    LET r == main(img, host, a, acc)
    IN  /\ args' = a
        /\ img' = r.img
        /\ obs' = r.obs
        /\ imgPre' = img
        /\ UNCHANGED host

Longs == 0..MaxLong

\* the source of write: standard input, a host file, or a host path that
\* names no file
Inputs ==
    {[given |-> g, exists |-> TRUE, data |-> d] : g \in BOOLEAN, d \in FileDatas}
    \cup {[given |-> TRUE, exists |-> FALSE, data |-> <<>>]}

Create ==
    \E force \in BOOLEAN, sizeOk \in BOOLEAN :
        Run(Args("create", <<>>, 0, FALSE, force, sizeOk, NoInput), IdAccept)

Info == Run(Args("info", <<>>, 0, FALSE, FALSE, TRUE, NoInput), IdAccept)

Ls ==
    \E p \in InnerPaths, long \in Longs, recursive \in BOOLEAN :
        Run(Args("ls", p, long, recursive, FALSE, TRUE, NoInput), IdAccept)

Mkdir ==
    \E p \in InnerPaths :
        Run(Args("mkdir", p, 0, FALSE, FALSE, TRUE, NoInput), IdAccept)

Read ==
    \E p \in InnerPaths :
        Run(Args("read", p, 0, FALSE, FALSE, TRUE, NoInput), IdAccept)

Write ==
    \E p \in InnerPaths, input \in Inputs, acc \in Accepts :
        Run(Args("write", p, 0, FALSE, FALSE, TRUE, input), acc)

ReadTree ==
    \E p \in InnerPaths, force \in BOOLEAN :
        Run(Args("read-tree", p, 0, FALSE, force, TRUE, NoInput), IdAccept)

WriteTree ==
    \E p \in InnerPaths, acc \in Accepts :
        Run(Args("write-tree", p, 0, FALSE, FALSE, TRUE, NoInput), acc)

NoArgs == Args("none", <<>>, 0, FALSE, FALSE, TRUE, NoInput)
NoObs == Obs("init", FALSE, <<>>, <<>>, <<>>, 0)

HostDirs(n) ==
    {[exists |-> TRUE, entries |-> f] : f \in Forests(TRUE, n)}
    \cup {[exists |-> FALSE, entries |-> <<>>]}

----------------------------------------------------------------------------
(* Spec: a session of invocations on one image file, which does not exist   *)
(* at the start                                                            *)

\* the host directory of the session is empty or missing: the host trees are
\* drawn in SpecWriteTree and SpecRoundTrip
SessionHosts ==
    {[exists |-> TRUE, entries |-> <<>>], [exists |-> FALSE, entries |-> <<>>]}

Init ==
    /\ img = AbsentImage
    /\ host \in SessionHosts
    /\ args = NoArgs
    /\ obs = NoObs
    /\ imgPre = AbsentImage

Idle == obs.status = "init"

\* a command of the session: the tool is started from the shell, and the
\* image stays within MaxImgNodes entries
InSession(Command) ==
    /\ Idle
    /\ Command
    /\ NodeCount(img'.root) <= MaxImgNodes

\* the process ends: back in the shell its arguments and output are gone,
\* the image file stays
Exit ==
    /\ ~Idle
    /\ args' = NoArgs
    /\ obs' = NoObs
    /\ imgPre' = img
    /\ UNCHANGED <<img, host>>

Next ==
    \/ InSession(Create)
    \/ InSession(Info)
    \/ InSession(Ls)
    \/ InSession(Mkdir)
    \/ InSession(Read)
    \/ InSession(Write)
    \/ InSession(ReadTree)
    \/ InSession(WriteTree)
    \/ Exit

Spec == Init /\ [][Next]_vars

----------------------------------------------------------------------------
(* SpecNormalize: normalize_inner_path alone, on every path of NormPaths   *)

InitNormalize ==
    /\ img = AbsentImage
    /\ host = [exists |-> FALSE, entries |-> <<>>]
    /\ args \in {Args("none", p, 0, FALSE, FALSE, TRUE, NoInput) : p \in NormPaths}
    /\ obs = NoObs
    /\ imgPre = AbsentImage

Normalize ==
    /\ obs.status = "init"
    /\ obs' = IF normalize_panics(args.inner_path)
              THEN [obs EXCEPT !.status = "panic"]
              ELSE [obs EXCEPT !.status = "ok",
                               !.norm = normalize_inner_path(args.inner_path)]
    /\ UNCHANGED <<img, host, args, imgPre>>

SpecNormalize == InitNormalize /\ [][Normalize]_vars

----------------------------------------------------------------------------
(* SpecWriteTree: one write-tree of a drawn host tree into a drawn image   *)

InitWriteTree ==
    /\ img \in {FatImage(f) : f \in Forests(FALSE, MaxDestNodes)}
    /\ host \in HostDirs(MaxHostNodes)
    /\ args = NoArgs
    /\ obs = NoObs
    /\ imgPre = img

NextWriteTree == Idle /\ WriteTree

SpecWriteTree == InitWriteTree /\ [][NextWriteTree]_vars

----------------------------------------------------------------------------
(* SpecRoundTrip: a write-tree of a drawn host tree into a new image, and  *)
(* a read-tree after it                                                    *)

InitRoundTrip ==
    /\ img = FatImage(<<>>)
    /\ host \in HostDirs(MaxHostNodes)
    /\ args = NoArgs
    /\ obs = NoObs
    /\ imgPre = img

WriteTreeFirst == Idle /\ WriteTree

ReadTreeNext == args.cmd = "write-tree" /\ obs.status = "ok" /\ ReadTree

NextRoundTrip == WriteTreeFirst \/ ReadTreeNext

SpecRoundTrip == InitRoundTrip /\ [][NextRoundTrip]_vars

----------------------------------------------------------------------------
(* SpecLs: one ls of a drawn image                                         *)

InitLs ==
    /\ img \in {FatImage(f) : f \in Forests(FALSE, MaxLsNodes)}
    /\ host = [exists |-> FALSE, entries |-> <<>>]
    /\ args = NoArgs
    /\ obs = NoObs
    /\ imgPre = img

NextLs == Idle /\ Ls

SpecLs == InitLs /\ [][NextLs]_vars

----------------------------------------------------------------------------
(* What the claims speak of *)

Absolute(p) == Len(p) >= 1 /\ p[1] = "/"

PathCommands == {"ls", "mkdir", "read", "write", "read-tree", "write-tree"}

\* the maximal runs of characters other than "/" in s, in order
RunStarts(s) == {i \in 1..Len(s) : s[i] # "/" /\ (i = 1 \/ s[i - 1] = "/")}
RunEnd(s, i) ==
    CHOOSE j \in i..Len(s) :
        /\ \A k \in i..j : s[k] # "/"
        /\ (j = Len(s) \/ s[j + 1] = "/")
NthStart(s, n) ==
    CHOOSE i \in RunStarts(s) : Cardinality({j \in RunStarts(s) : j < i}) = n - 1
Runs(s) ==
    [n \in 1..Cardinality(RunStarts(s)) |->
        SubSeq(s, NthStart(s, n), RunEnd(s, NthStart(s, n)))]

\* the directory a tree command works on, before and after the command
DestBefore == cursor_at(imgPre.root, obs.norm).children
DestAfter == cursor_at(img.root, obs.norm).children

WroteTree == args.cmd = "write-tree" /\ obs.status = "ok"

\* the entries of a tree as <<path, kind>> pairs
RECURSIVE PathKinds(_, _)
PathKinds(children, prefix) ==
    UNION { {<<Append(prefix, children[i].name), children[i].kind>>}
            \cup PathKinds(children[i].children, Append(prefix, children[i].name)) :
            i \in 1..Len(children) }

\* the files of a tree as <<path, bytes>> pairs
RECURSIVE PathDatas(_, _)
PathDatas(children, prefix) ==
    UNION { (IF children[i].kind = "File"
             THEN {<<Append(prefix, children[i].name), children[i].data>>}
             ELSE {})
            \cup PathDatas(children[i].children, Append(prefix, children[i].name)) :
            i \in 1..Len(children) }

Paths(children) == {pk[1] : pk \in PathKinds(children, <<>>)}

RECURSIVE CountKind(_, _)
CountKind(children, kind) ==
    IF children = <<>> THEN 0
    ELSE (IF Head(children).kind = kind THEN 1 ELSE 0)
         + CountKind(Head(children).children, kind)
         + CountKind(Tail(children), kind)

\* every directory of the host tree in which an entry of kind kind comes
\* before a file or a directory has that later entry in the image too
RECURSIVE LaterSiblingsCopied(_, _, _)
LaterSiblingsCopied(hostEntries, imgEntries, kind) ==
    /\ \A i \in 1..Len(hostEntries) : \A j \in (i + 1)..Len(hostEntries) :
          (hostEntries[i].kind = kind /\ hostEntries[j].kind \in {"File", "Dir"})
              => Find(imgEntries, hostEntries[j].name) # 0
    /\ \A i \in 1..Len(hostEntries) :
          (hostEntries[i].kind = "Dir" /\ Find(imgEntries, hostEntries[i].name) # 0)
              => LaterSiblingsCopied(hostEntries[i].children,
                     imgEntries[Find(imgEntries, hostEntries[i].name)].children, kind)

\* the lines of ls after the line of the arguments
Lines == Tail(obs.out)
Listed == cursor_at(img.root, obs.norm).children
Listing == args.cmd = "ls" /\ obs.status = "ok"
NameText(e) == e.name \o (IF e.kind = "Dir" THEN <<"/">> ELSE <<>>)

\* the entries below a directory as sequences of indices, one index per level
RECURSIVE Positions(_)
Positions(children) ==
    UNION { {<<i>>} \cup {<<i>> \o q : q \in Positions(children[i].children)} :
            i \in 1..Len(children) }
RECURSIVE EntryAt(_, _)
EntryAt(children, pos) ==
    IF Len(pos) = 1 THEN children[pos[1]]
    ELSE EntryAt(children[pos[1]].children, Tail(pos))
\* p comes before q in depth-first pre-order
Before(p, q) ==
    \/ Len(p) < Len(q) /\ SubSeq(q, 1, Len(p)) = p
    \/ \E k \in 1..Min(Len(p), Len(q)) :
          p[k] < q[k] /\ SubSeq(p, 1, k - 1) = SubSeq(q, 1, k - 1)
Rank(all, pos) == 1 + Cardinality({q \in all : Before(q, pos)})

----------------------------------------------------------------------------
(* The claims *)

\* C1: for every path that starts with "/", normalize_inner_path gives the
\* non-empty pieces of the rest of the path, in order and unchanged ("." and
\* ".." included), joined by single separators: no empty segment, no leading
\* and no trailing separator.
C1_NormalizeKeepsNonEmptyPieces ==
    obs.status = "ok" =>
        LET r    == obs.norm
            rest == Tail(args.inner_path)
        IN  /\ Absolute(args.inner_path)
            /\ Runs(r) = Runs(rest)
            /\ r # <<>> => (r[1] # "/" /\ r[Len(r)] # "/")
            /\ \A i \in 1..(Len(r) - 1) : ~(r[i] = "/" /\ r[i + 1] = "/")

\* C1's case: "/a//b/" is normalized to a/b
C1_Witness ==
    /\ obs.status = "ok"
    /\ args.inner_path = <<"/", "a", "/", "/", "b", "/">>
    /\ obs.norm = <<"a", "/", "b">>

\* C2: a command that takes an inner path and is given one that does not
\* start with "/" (the empty one included) panics before any I/O: the image
\* file is not opened, the image is as before, the host tree is not read,
\* no host entry is created, and nothing is written but the line of the
\* arguments that main prints before it looks at the command.
C2_NonAbsolutePathFailsBeforeIO ==
    (args.cmd \in PathCommands /\ ~Absolute(args.inner_path)) =>
        /\ obs.status = "panic"
        /\ ~obs.opened
        /\ img = imgPre
        /\ obs.reads = 0
        /\ obs.extracted = <<>>
        /\ obs.out = <<ArgsLine>>
        /\ obs.err = <<>>

\* C2's case: mkdir of the relative path "a" on a formatted image
C2_Witness ==
    /\ args.cmd = "mkdir"
    /\ args.inner_path = <<"a">>
    /\ imgPre.state = "fat"
    /\ obs.status = "panic"

\* C3: a read-tree that follows a successful write-tree of a host tree of
\* files and directories only, on the same image directory, ends
\* successfully and has extracted the host tree.
C3_RoundTripReproducesTree ==
    [][ ( /\ args.cmd = "write-tree" /\ obs.status = "ok"
          /\ CountKind(host.entries, "Symlink") = 0
          /\ CountKind(host.entries, "Other") = 0
          /\ args'.cmd = "read-tree"
          /\ args'.inner_path = args.inner_path )
        => ( /\ obs'.status = "ok"
             /\ PathKinds(obs'.extracted, <<>>) = PathKinds(host.entries, <<>>)
             /\ PathDatas(obs'.extracted, <<>>) = PathDatas(host.entries, <<>>) ) ]_vars

\* C4: after a write-tree that ended successfully every host file has its
\* bytes, all and in order, in the image file of the same path, however many
\* bytes each write call of the backend accepted; and so has the file
\* written by a successful write.
C4_CopiedFileHoldsHostBytes ==
    /\ WroteTree =>
          \A pd \in PathDatas(host.entries, <<>>) : pd \in PathDatas(DestAfter, <<>>)
    /\ (args.cmd = "write" /\ obs.status = "ok") =>
          open_file(img.root, obs.norm).data = args.input.data

\* C5: after a successful write-tree into an empty image directory, that
\* directory holds exactly the host tree's files and directories, each at
\* its path and of its kind, and nothing else.
C5_ImageTreeMirrorsHostTree ==
    WroteTree =>
        /\ DestBefore = <<>>
        /\ PathKinds(DestAfter, <<>>)
             = {pk \in PathKinds(host.entries, <<>>) : pk[2] \in {"File", "Dir"}}
        /\ NodeCount(DestAfter) = Cardinality(PathKinds(DestAfter, <<>>))

\* C5's case: a host directory with a file in it is copied
C5_Witness ==
    /\ WroteTree
    /\ \E pk \in PathKinds(DestAfter, <<>>) : Len(pk[1]) = 2 /\ pk[2] = "File"

\* the destination of a write-tree holds an entry named like a host entry
NameConflict ==
    /\ args.cmd = "write-tree"
    /\ Absolute(args.inner_path)
    /\ imgPre.state = "fat"
    /\ cursor_at(imgPre.root, obs.norm).ok
    /\ host.exists
    /\ \E i \in 1..Len(DestBefore) : \E j \in 1..Len(host.entries) :
          DestBefore[i].name = host.entries[j].name

C7_SymlinkWarnedAndSkipped ==
    WroteTree =>
        /\ Len(obs.err) >= CountKind(host.entries, "Symlink")
        /\ \A pk \in PathKinds(host.entries, <<>>) :
              pk[2] = "Symlink" => pk[1] \notin Paths(DestAfter)
        /\ LaterSiblingsCopied(host.entries, DestAfter, "Symlink")

\* C7's case: a symlink to a file, then a regular file
C7_Witness ==
    /\ WroteTree
    /\ Len(host.entries) = 2
    /\ host.entries[1].kind = "Symlink"
    /\ host.entries[1].target = "File"
    /\ host.entries[2].kind = "File"
    /\ Len(obs.err) = 1

\* C8: at every count of -l, ls writes one line per entry of the listed
\* directory that is not "." or "..", in enumeration order, no line for "."
\* or "..", and no entry twice.
C8_OneLinePerEntry ==
    Listing =>
        LET top == SelectSeq(Lines, LAMBDA l : l.pad = 0)
        IN  /\ Len(top) = Len(Listed)
            /\ \A i \in 1..Len(top) : top[i].text = NameText(Listed[i])
            /\ \A i \in 1..Len(Lines) :
                  Lines[i].text \notin {<<".">>, <<".", ".">>, <<".", "/">>, <<".", ".", "/">>}
            /\ Len(Lines) = IF args.recursive THEN NodeCount(Listed) ELSE Len(Listed)

\* C8's case: at tier 0 a directory of a file, a directory, "." and ".."
\* gives two lines
C8_Witness ==
    /\ Listing
    /\ args.long = 0
    /\ ~args.recursive
    /\ obs.norm # <<>>
    /\ Len(Listed) = 2
    /\ Listed[1].kind = "File"
    /\ Listed[2].kind = "Dir"
    /\ Len(Lines) = 2
    /\ Lines[2].text = Listed[2].name \o <<"/">>

\* C9: a recursive ls writes the entries below the listed directory in
\* depth-first pre-order, an entry d levels down behind d indentation units
\* of two spaces; an ls that is not recursive writes no entry below level 0.
C9_DepthFirstPreOrder ==
    Listing =>
        IF args.recursive
        THEN LET all == Positions(Listed)
             IN  /\ Len(Lines) = Cardinality(all)
                 /\ \A pos \in all :
                       /\ Lines[Rank(all, pos)].pad = 2 * (Len(pos) - 1)
                       /\ Lines[Rank(all, pos)].text = NameText(EntryAt(Listed, pos))
        ELSE \A i \in 1..Len(Lines) : Lines[i].pad = 0

\* C9's case: an entry two levels down right after its parent one level down
C9_Witness ==
    /\ Listing
    /\ args.recursive
    /\ \E i \in 2..Len(Lines) : Lines[i].pad = 4 /\ Lines[i - 1].pad = 2

\* C10, as claimed: a successful write-tree has written a warning for every
\* host entry that is neither file, directory nor symlink, as it has for
\* every symlink.
C10_OtherKindsWarned ==
    WroteTree =>
        Len(obs.err) = CountKind(host.entries, "Symlink") + CountKind(host.entries, "Other")

\* C10, amended: a successful write-tree has created no image entry at the
\* path of a host entry that is neither file, directory nor symlink, has
\* copied the files and directories that come after it, and has written no
\* warning for it: the warnings are those of the symlinks.
C10_OtherKindsSkippedSilently ==
    WroteTree =>
        /\ \A pk \in PathKinds(host.entries, <<>>) :
              pk[2] = "Other" => pk[1] \notin Paths(DestAfter)
        /\ LaterSiblingsCopied(host.entries, DestAfter, "Other")
        /\ Len(obs.err) <= CountKind(host.entries, "Symlink")

\* C10's case: a device or socket, then a regular file, and no warning
C10_Witness ==
    /\ WroteTree
    /\ Len(host.entries) = 2
    /\ host.entries[1].kind = "Other"
    /\ host.entries[2].kind = "File"
    /\ obs.err = <<>>

====
